---- MODULE Spec2Model ----
(***************************************************************************)
(* Model of crates/chain/src/sqlite.rs: the schema version registry, the   *)
(* schema migrator, the pair combinator of PersistParams and the           *)
(* Persister (into_persister / persist), running against one transactional *)
(* store.  Every call of the store (open a transaction, execute a          *)
(* statement, query a row, commit) is one step; any of them may fail, and  *)
(* the `?` of the source then returns the error while the dropped          *)
(* Transaction rolls the store back.                                       *)
(***************************************************************************)
EXTENDS Integers, Sequences, FiniteSets, TLC

\* ------------------------------------------------------------------ bounds
\* Longest versioned_scripts list a release passes to migrate_schema for the
\* first schema, and for the second (younger) schema.
MaxScripts == 4
MaxScriptsB == 1
\* Longest script batch (statements per version).
MaxBatchLen == 2
\* Facts (row-equivalents) a leaf changeset can hold are 1..MaxFact.
MaxFact == 1

\* --------------------------------------------------------- Option<T>, names
None == <<>>
Some(x) == <<x>>
unwrap(o) == o[1]
unwrap_or_default(o, default) == IF o = None THEN default ELSE o[1]

\* The pair (A, B) of leaf parameters, named by the schema each one migrates:
\* self.0 is Params[1], self.1 is Params[2].
Params == <<"a", "b">>
SchemaNames == {Params[i] : i \in 1..2}

\* ------------------------------------------------------------- changesets
\* A leaf ChangeSet is a set of facts: Default is the empty set, merge is
\* union.  The ChangeSet of (A, B) is the tuple of the two.
Facts == 1..MaxFact
LeafChangeSets == SUBSET Facts
Default == {}
leaf_is_empty(c) == c = {}
leaf_merge(c, other) == c \cup other
ChangeSets == LeafChangeSets \X LeafChangeSets
DefaultPair == <<Default, Default>>
is_empty(c) == leaf_is_empty(c[1]) /\ leaf_is_empty(c[2])
merge(c, other) == <<leaf_merge(c[1], other[1]), leaf_merge(c[2], other[2])>>

\* ---------------------------------------------------------------- scripts
\* versioned_scripts of schema `name` in a release that ships n versions:
\* batch k (0-based version k-1) is a list of statements, each named by
\* <<schema, version, position>>.  Releases only append batches.
ScriptLen(version) == (version % MaxBatchLen) + 1
script(name, version) == [i \in 1..ScriptLen(version) |-> <<name, version, i>>]
versioned_scripts(name, n) == [k \in 1..n |-> script(name, k - 1)]

\* The script list lengths (one per schema) a release can ship.
Releases ==
    { n \in [SchemaNames -> 0..MaxScripts] : n[Params[2]] <= MaxScriptsB }

\* ------------------------------------------------------------------ store
\* What one connection sees: whether the registry table bdk_schemas exists,
\* its rows, the statements of the scripts applied (in order) per schema and
\* the materialized facts per leaf.
EmptyStore ==
    [ schemas_table |-> FALSE,
      bdk_schemas |-> {},
      applied |-> [m \in SchemaNames |-> <<>>],
      rows |-> [m \in SchemaNames |-> {}] ]

\* CREATE TABLE IF NOT EXISTS bdk_schemas(...)
create_schemas_table(store) == [store EXCEPT !.schemas_table = TRUE]

\* Faulty variant of select_version: the WHERE name=:name is missing.
select_version_any(store, name) ==
    IF store.bdk_schemas = {} THEN {None}
    ELSE {Some(r.version) : r \in store.bdk_schemas}

\* Faulty variant of select_version: the query never finds the row.
select_version_none(store, name) == {None}

\* SELECT version FROM bdk_schemas WHERE name=:name, through query_row and
\* .optional(): the versions a matching row can give, or None without a row.
select_version(store, name) ==
    LET matching == {r \in store.bdk_schemas : r.name = name}
    IN  IF matching = {} THEN {None} ELSE {Some(r.version) : r \in matching}

\* Faulty variant of replace_into: the version write is lost.
replace_into_lost(store, name, schema_version) == store

\* REPLACE INTO bdk_schemas(name, version) VALUES(:name, :version)
replace_into(store, name, schema_version) ==
    [store EXCEPT !.bdk_schemas =
        {r \in @ : r.name # name} \cup {[name |-> name, version |-> schema_version]}]

\* db_tx.execute(statement, ())
execute_statement(store, name, stmt) ==
    [store EXCEPT !.applied[name] = Append(@, stmt)]

\* The registry version of `name` in a store, as Option.
registry(store, name) ==
    IF \E r \in store.bdk_schemas : r.name = name
    THEN Some((CHOOSE r \in store.bdk_schemas : r.name = name).version)
    ELSE None

\* -------------------------------------------------------- leaf parameters
\* A leaf's write_changeset is additive and its load_changeset returns the
\* materialized state, None when there is none.
leaf_write_changeset(store, name, c) == [store EXCEPT !.rows[name] = leaf_merge(@, c)]
leaf_load_changeset(store, name) ==
    IF store.rows[name] = {} THEN None ELSE Some(store.rows[name])

\* ----------------------------------------------------------- column codec
\* Sql<T>: FromSql::column_result (decode) and ToSql::to_sql (encode) for each
\* supported T.  Text and blob contents are sequences of bytes (a text is its
\* ASCII codes); integers are scaled from 64 to SatBits bits.
SatBits == 3
I64_MIN == 0 - 2 ^ (SatBits - 1)
I64_MAX == 2 ^ (SatBits - 1) - 1
U64_MAX == 2 ^ SatBits - 1
\* Bytes in a hash (scaled from 32).
HashLen == 2
\* Longest script, and most outputs of a transaction.
MaxBytes == 2
\* Largest height of an anchor.
MaxHeight == 1

Ok(x) == [ok |-> TRUE, v |-> x]
Err(e) == [ok |-> FALSE, v |-> e]

\* rusqlite::types::ValueRef, the native column value.
SqlNull == [class |-> "Null", int |-> 0, bytes |-> <<>>]
SqlInteger(i) == [class |-> "Integer", int |-> i, bytes |-> <<>>]
SqlText(s) == [class |-> "Text", int |-> 0, bytes |-> s]
SqlBlob(b) == [class |-> "Blob", int |-> 0, bytes |-> b]

\* ValueRef::as_str, as_bytes, as_i64: the accessors of the column value.
IsAscii(s) == \A i \in 1..Len(s) : s[i] < 128
as_str(value) ==
    IF value.class # "Text" THEN Err("InvalidType")
    ELSE IF IsAscii(value.bytes) THEN Ok(value.bytes) ELSE Err("Other")
as_bytes(value) ==
    IF value.class \in {"Text", "Blob"} THEN Ok(value.bytes) ELSE Err("InvalidType")
as_i64(value) ==
    IF value.class = "Integer" THEN Ok(value.int) ELSE Err("InvalidType")

\* Faulty variant of from_sql_error: a failed parse yields an empty value.
from_sql_error_default(r) == IF r.ok THEN r ELSE Ok(<<>>)

\* .map_err(from_sql_error): the cause is boxed into FromSqlError::Other.
from_sql_error(r) == IF r.ok THEN r ELSE Err("Other")

\* .map_err(to_sql_error): boxed into rusqlite::Error::ToSqlConversionFailure.
to_sql_error(r) == IF r.ok THEN r ELSE Err("ToSqlConversionFailure")

Reverse(s) == [i \in 1..Len(s) |-> s[Len(s) + 1 - i]]

\* Hashes as hex: Display writes lower case, FromStr reads either case and
\* wants exactly two digits per byte; Txid and BlockHash display their bytes
\* backward, DescriptorId forward.
HexDigit(n) == IF n < 10 THEN 48 + n ELSE 87 + n
IsHex(c) == c \in (48..57) \cup (65..70) \cup (97..102)
HexValue(c) == IF c <= 57 THEN c - 48 ELSE IF c >= 97 THEN c - 87 ELSE c - 55
to_hex(bytes) ==
    [i \in 1..(2 * Len(bytes)) |->
        IF i % 2 = 1 THEN HexDigit(bytes[(i + 1) \div 2] \div 16)
                     ELSE HexDigit(bytes[i \div 2] % 16)]
from_hex(s) ==
    IF Len(s) = 2 * HashLen /\ \A i \in 1..Len(s) : IsHex(s[i])
    THEN Ok([k \in 1..HashLen |-> 16 * HexValue(s[2 * k - 1]) + HexValue(s[2 * k])])
    ELSE Err("HexToArrayError")
Backward(T) == T \in {"Txid", "BlockHash"}
hash_to_string(T, hash) == to_hex(IF Backward(T) THEN Reverse(hash) ELSE hash)
hash_from_str(T, s) ==
    LET r == from_hex(s)
    IN  IF r.ok /\ Backward(T) THEN Ok(Reverse(r.v)) ELSE r

\* Sql<Txid>, Sql<BlockHash>, Sql<DescriptorId>
hash_column_result(T, value) ==
    LET s == as_str(value)
    IN  IF s.ok THEN from_sql_error(hash_from_str(T, s.v)) ELSE s
hash_to_sql(T, self) == Ok(SqlText(hash_to_string(T, self)))

\* Transaction::consensus_encode: version, number of outputs, the outputs
\* (scaled to one byte each).  consensus_decode_from_finite_reader reads as
\* many bytes as the count announces and leaves the rest of the reader alone.
consensus_encode(tx) == Ok(<<tx.version, Len(tx.output)>> \o tx.output)
consensus_decode_from_finite_reader(bytes) ==
    IF Len(bytes) >= 2 /\ Len(bytes) >= 2 + bytes[2]
    THEN Ok([version |-> bytes[1], output |-> SubSeq(bytes, 3, 2 + bytes[2])])
    ELSE Err("encode::Error")

\* Sql<Transaction>
transaction_column_result(value) ==
    LET bytes == as_bytes(value)
    IN  IF bytes.ok THEN from_sql_error(consensus_decode_from_finite_reader(bytes.v))
        ELSE bytes
transaction_to_sql(self) ==
    LET bytes == to_sql_error(consensus_encode(self))
    IN  IF bytes.ok THEN Ok(SqlBlob(bytes.v)) ELSE bytes

\* Sql<ScriptBuf>: Script::from_bytes takes any bytes.
script_column_result(value) ==
    LET bytes == as_bytes(value)
    IN  IF bytes.ok THEN Ok(bytes.v) ELSE bytes
script_to_sql(self) == Ok(SqlBlob(self))

\* u64::try_into::<i64> and i64::try_into::<u64>
u64_try_into_i64(sat) == IF sat <= I64_MAX THEN Ok(sat) ELSE Err("TryFromIntError")
i64_try_into_u64(i) == IF 0 <= i /\ i <= U64_MAX THEN Ok(i) ELSE Err("TryFromIntError")

\* Faulty variant of amount_to_sql: `as i64`, which wraps.
amount_to_sql_wrapping(self) ==
    Ok(SqlInteger(IF self <= I64_MAX THEN self ELSE self - 2 ^ SatBits))

\* Sql<Amount>: to_sat().try_into() to i64; as_i64()?.try_into() to from_sat.
amount_to_sql(self) ==
    LET amount == to_sql_error(u64_try_into_i64(self))
    IN  IF amount.ok THEN Ok(SqlInteger(amount.v)) ELSE amount
amount_column_result(value) ==
    LET i == as_i64(value)
    IN  IF i.ok THEN from_sql_error(i64_try_into_u64(i.v)) ELSE i

\* serde_json for an anchor with the one field "h", a height: to_string
\* writes {"h":N}; from_str skips spaces between tokens and wants a number
\* without sign or leading zero.
RECURSIVE Decimal(_)
Decimal(n) == IF n < 10 THEN <<48 + n>> ELSE Decimal(n \div 10) \o <<48 + (n % 10)>>
RECURSIVE Number(_)
Number(digits) ==
    IF Len(digits) = 1 THEN digits[1] - 48
    ELSE 10 * Number(SubSeq(digits, 1, Len(digits) - 1)) + digits[Len(digits)] - 48
InString(s, i) == Cardinality({j \in 1..(i - 1) : s[j] = 34}) % 2 = 1
SkipSpaces(s) == SelectSeq([i \in 1..Len(s) |-> IF s[i] = 32 /\ ~InString(s, i)
                                                THEN 0 ELSE s[i]],
                           LAMBDA c : c # 0)
JsonKey == <<123, 34, 104, 34, 58>>
json_to_string(anchor) == Ok(JsonKey \o Decimal(anchor.h) \o <<125>>)
json_from_str(s) ==
    LET t == SkipSpaces(s)
        digits == SubSeq(t, Len(JsonKey) + 1, Len(t) - 1)
    IN  IF /\ Len(t) >= Len(JsonKey) + 2
           /\ SubSeq(t, 1, Len(JsonKey)) = JsonKey
           /\ t[Len(t)] = 125
           /\ \A i \in 1..Len(digits) : digits[i] \in 48..57
           /\ Len(digits) > 1 => digits[1] # 48
        THEN Ok([h |-> Number(digits)])
        ELSE Err("serde_json::Error")

\* Sql<A: Anchor>
anchor_column_result(value) ==
    LET s == as_str(value)
    IN  IF s.ok THEN from_sql_error(json_from_str(s.v)) ELSE s
anchor_to_sql(self) ==
    LET s == to_sql_error(json_to_string(self))
    IN  IF s.ok THEN Ok(SqlText(s.v)) ELSE s

\* Descriptor strings: Display writes the expression, '#' and its checksum
\* (scaled to one character); FromStr takes the expression with its checksum
\* or without one.
Descriptors == {"pk(A)", "pkh(A)"}
Expression(d) ==
    IF d = "pk(A)" THEN <<112, 107, 40, 65, 41>> ELSE <<112, 107, 104, 40, 65, 41>>
RECURSIVE Sum(_)
Sum(s) == IF s = <<>> THEN 0 ELSE s[1] + Sum(Tail(s))
desc_checksum(s) == <<97 + (Sum(s) % 26)>>
descriptor_to_string(d) == Expression(d) \o <<35>> \o desc_checksum(Expression(d))
descriptor_from_str(s) ==
    LET hashes == {i \in 1..Len(s) : s[i] = 35}
        expr == IF hashes = {} THEN s
                ELSE SubSeq(s, 1, (CHOOSE i \in hashes : \A j \in hashes : i <= j) - 1)
        known == {d \in Descriptors : Expression(d) = expr}
    IN  IF known # {} /\ (hashes = {} \/ s = expr \o <<35>> \o desc_checksum(expr))
        THEN Ok(CHOOSE d \in known : TRUE)
        ELSE Err("miniscript::Error")

\* Sql<Descriptor<DescriptorPublicKey>>
descriptor_column_result(value) ==
    LET s == as_str(value)
    IN  IF s.ok THEN from_sql_error(descriptor_from_str(s.v)) ELSE s
descriptor_to_sql(self) == Ok(SqlText(descriptor_to_string(self)))

\* Network: Display and FromStr use the same lower-case names.
Networks == {"bitcoin", "testnet", "signet", "regtest"}
network_to_string(network) ==
    CASE network = "bitcoin" -> <<98, 105, 116, 99, 111, 105, 110>>
      [] network = "testnet" -> <<116, 101, 115, 116, 110, 101, 116>>
      [] network = "signet" -> <<115, 105, 103, 110, 101, 116>>
      [] network = "regtest" -> <<114, 101, 103, 116, 101, 115, 116>>
network_from_str(s) ==
    LET named == {network \in Networks : network_to_string(network) = s}
    IN  IF named # {} THEN Ok(CHOOSE network \in named : TRUE)
        ELSE Err("ParseNetworkError")

\* Sql<Network>
network_column_result(value) ==
    LET s == as_str(value)
    IN  IF s.ok THEN from_sql_error(network_from_str(s.v)) ELSE s
network_to_sql(self) == Ok(SqlText(network_to_string(self)))

\* The impl of FromSql and of ToSql chosen by the type of the column.
Types == { "Txid", "BlockHash", "DescriptorId", "Transaction", "ScriptBuf",
           "Amount", "Anchor", "Descriptor", "Network" }
HashTypes == {"Txid", "BlockHash", "DescriptorId"}
column_result(T, value) ==
    CASE T \in HashTypes -> hash_column_result(T, value)
      [] T = "Transaction" -> transaction_column_result(value)
      [] T = "ScriptBuf" -> script_column_result(value)
      [] T = "Amount" -> amount_column_result(value)
      [] T = "Anchor" -> anchor_column_result(value)
      [] T = "Descriptor" -> descriptor_column_result(value)
      [] T = "Network" -> network_column_result(value)
to_sql(T, self) ==
    CASE T \in HashTypes -> hash_to_sql(T, self)
      [] T = "Transaction" -> transaction_to_sql(self)
      [] T = "ScriptBuf" -> script_to_sql(self)
      [] T = "Amount" -> amount_to_sql(self)
      [] T = "Anchor" -> anchor_to_sql(self)
      [] T = "Descriptor" -> descriptor_to_sql(self)
      [] T = "Network" -> network_to_sql(self)

\* The values of each type the columns are bound to.
SeqsUpTo(S, n) == UNION {[1..k -> S] : k \in 0..n}
Values(T) ==
    CASE T \in HashTypes -> [1..HashLen -> {0, 171, 255}]
      [] T = "Transaction" ->
            [version : {1, 2}, output : SeqsUpTo({0, 81}, MaxBytes)]
      [] T = "ScriptBuf" -> SeqsUpTo({0, 81, 172}, MaxBytes)
      [] T = "Amount" -> 0..U64_MAX
      [] T = "Anchor" -> [h : 0..MaxHeight]
      [] T = "Descriptor" -> Descriptors
      [] T = "Network" -> Networks

\* What a column can hold in place of the value bound to it: one byte or
\* character replaced, the last dropped, one appended, text for blob or blob
\* for text, another integer, or NULL.
AlteredBytes == {0, 1, 32, 49, 70, 103, 200}
Alterations(value) ==
    LET s == value.bytes
        same_class(t) == [value EXCEPT !.bytes = t]
    IN  IF value.class = "Integer"
        THEN {SqlInteger(i) : i \in (I64_MIN..I64_MAX) \ {value.int}} \cup {SqlNull}
        ELSE ( {same_class([s EXCEPT ![i] = b]) : i \in 1..Len(s), b \in AlteredBytes}
               \cup {same_class(Append(s, b)) : b \in AlteredBytes}
               \cup {same_class(SubSeq(s, 1, Len(s) - 1)) : i \in 1..Len(s)}
               \cup {IF value.class = "Text" THEN SqlBlob(s) ELSE SqlText(s), SqlNull} )
             \ {value}

\* No column is bound.
NoColumn ==
    [ phase |-> "none", T |-> "", self |-> <<>>, stored |-> Err(""),
      altered |-> FALSE, decoded |-> Err("") ]

\* ------------------------------------------------------------------ state
VARIABLES
    db,               \* the committed store
    db_tx,            \* Option: the open transaction's view of the store
    persister,        \* a Persister has been handed out and is alive
    pc,               \* the store call the running operation makes next
    call,             \* the running (or last) operation and its arguments
    leaf,             \* which component of the pair is running (1 or 2)
    version,          \* migrate_schema: loop variable
    statement,        \* migrate_schema: position in the script batch
    changeset,        \* load_changeset: the tuple being loaded
    \* observations of the call, for the properties
    result,           \* "none" while running, then "Ok", "Err" or "Crash"
    loaded,           \* Option<ChangeSet> returned by into_persister
    pre,              \* the committed store when the call started
    executed,         \* statements executed by this call, per schema
    failed,           \* Option: where the call failed
    prev,             \* how this call relates to the one before it
    persisted,        \* merge of all changesets persisted with Ok
    column            \* the column value being written and read back

store_vars == << db, db_tx, persister, pc, call, leaf, version,
                 statement, changeset, result, loaded, pre, executed, failed,
                 prev, persisted >>
vars == << store_vars, column >>

locals == << leaf, version, statement, changeset >>
observed == << result, loaded, pre, executed, failed, prev >>

NoScripts == [m \in SchemaNames |-> 0]
NoneExecuted == [m \in SchemaNames |-> <<>>]
Unrelated == [rel |-> "other", name |-> "", version |-> 0]

Init ==
    /\ db = EmptyStore
    /\ db_tx = None
    /\ persister = FALSE
    /\ pc = "idle"
    /\ call = [op |-> "none", scripts |-> NoScripts, changeset |-> DefaultPair]
    /\ leaf = 1
    /\ version = 0
    /\ statement = 0
    /\ changeset = DefaultPair
    /\ result = "none"
    /\ loaded = None
    /\ pre = EmptyStore
    /\ executed = NoneExecuted
    /\ failed = None
    /\ prev = Unrelated
    /\ persisted = DefaultPair
    /\ column = NoColumn

\* ---------------------------------------------------------------- control
Goto(label, l, ver, stmt) ==
    /\ pc' = label
    /\ leaf' = l
    /\ version' = ver
    /\ statement' = stmt

\* Back to the caller: the locals of the operation are gone.
Return(res) ==
    /\ pc' = "idle"
    /\ result' = res
    /\ leaf' = 1
    /\ version' = 0
    /\ statement' = 0
    /\ changeset' = DefaultPair

\* The versioned_scripts component l of the pair passes to migrate_schema.
scripts_of(l) == versioned_scripts(Params[l], call.scripts[Params[l]])

\* (A, B)::initialize_tables after migrate_schema of component l returned Ok:
\* self.1.initialize_tables after self.0, load_changeset after both.
initialize_tables_next(l) ==
    IF l = 1
    THEN Goto("init_schemas_table", 2, 0, 0)
    ELSE Goto("load_changeset", 1, 0, 0)

\* versioned_scripts.iter().enumerate().skip(exec_from), at index ver: the
\* loop body runs for ver < len, starting with set_schema_version.
for_scripts_to_exec(l, ver) ==
    IF ver < Len(scripts_of(l))
    THEN Goto("set_schema_version", l, ver, 0)
    ELSE initialize_tables_next(l)

\* Faulty variant of for_statement: the last statement of a batch is left out.
for_statement_short(l, ver, stmt) ==
    IF stmt < Len(scripts_of(l)[ver + 1])
    THEN Goto("execute", l, ver, stmt)
    ELSE for_scripts_to_exec(l, ver + 1)

\* for statement in script, at position stmt (1-based) of batch ver.
for_statement(l, ver, stmt) ==
    IF stmt <= Len(scripts_of(l)[ver + 1])
    THEN Goto("execute", l, ver, stmt)
    ELSE for_scripts_to_exec(l, ver + 1)

\* Faulty variant of exec_from: starts at the recorded version instead of after it.
exec_from_same(current_version) ==
    IF current_version = None THEN 0 ELSE unwrap(current_version)

\* current_version.map_or(0_usize, |v| v as usize + 1)
exec_from(current_version) ==
    IF current_version = None THEN 0 ELSE unwrap(current_version) + 1

\* How a bootstrap with `scripts` relates to the call before it.
relation(scripts) ==
    IF call.op = "into_persister" /\ call.scripts = scripts
    THEN IF result = "Ok"
         THEN [rel |-> "after_ok", name |-> "", version |-> 0]
         ELSE IF failed # None /\ unwrap(failed).at = "execute"
              THEN [rel |-> "after_failed_batch",
                    name |-> unwrap(failed).name,
                    version |-> unwrap(failed).version]
              ELSE Unrelated
    ELSE Unrelated

\* How a persist relates to the call before it.
persist_relation ==
    IF call.op = "persist" /\ result = "Err"
    THEN [rel |-> "after_failed_persist", name |-> "", version |-> 0]
    ELSE Unrelated

\* ------------------------------------------------------------- operations
\* ConnectionExt::into_persister is called on a connection to the store
\* with the pair of parameters of a release.
into_persister ==
    /\ pc = "idle"
    /\ \E scripts \in Releases :
        /\ prev' = relation(scripts)
        /\ call' = [op |-> "into_persister", scripts |-> scripts,
                    changeset |-> DefaultPair]
    /\ pc' = "transaction"
    /\ persister' = FALSE
    /\ result' = "none"
    /\ loaded' = None
    /\ pre' = db
    /\ executed' = NoneExecuted
    /\ failed' = None
    /\ UNCHANGED << db, db_tx, locals, persisted >>
    /\ UNCHANGED column

\* Faulty variant of persist: no is_empty check, a transaction is always opened.
persist_always ==
    /\ pc = "idle"
    /\ persister
    /\ \E c \in ChangeSets :
        call' = [op |-> "persist", scripts |-> NoScripts, changeset |-> c]
    /\ pc' = "transaction"
    /\ result' = "none"
    /\ prev' = persist_relation
    /\ loaded' = None
    /\ pre' = db
    /\ executed' = NoneExecuted
    /\ failed' = None
    /\ UNCHANGED << db, db_tx, persister, locals, persisted >>
    /\ UNCHANGED column

\* Persister::persist: nothing to do for an empty changeset.
persist ==
    /\ pc = "idle"
    /\ persister
    /\ \E c \in ChangeSets :
        /\ call' = [op |-> "persist", scripts |-> NoScripts, changeset |-> c]
        /\ IF ~is_empty(c)
           THEN pc' = "transaction" /\ result' = "none"
           ELSE pc' = "idle" /\ result' = "Ok"
    /\ prev' = persist_relation
    /\ loaded' = None
    /\ pre' = db
    /\ executed' = NoneExecuted
    /\ failed' = None
    /\ UNCHANGED << db, db_tx, persister, locals, persisted >>
    /\ UNCHANGED column

\* conn.transaction()
transaction ==
    /\ pc = "transaction"
    /\ db_tx' = Some(db)
    /\ IF call.op = "into_persister"
       THEN Goto("init_schemas_table", 1, 0, 0)
       ELSE Goto("write_changeset", 1, 0, 0)
    /\ UNCHANGED << db, persister, call, changeset, observed,
                    persisted >>
    /\ UNCHANGED column

\* migrate_schema: init_schemas_table(db_tx)?
init_schemas_table ==
    /\ pc = "init_schemas_table"
    /\ db_tx' = Some(create_schemas_table(unwrap(db_tx)))
    /\ pc' = "schema_version"
    /\ UNCHANGED << db, persister, call, locals, observed, persisted >>
    /\ UNCHANGED column

\* migrate_schema: let current_version = schema_version(db_tx, schema_name)?
\* and the entry of the loop over the scripts from exec_from on.
schema_version ==
    /\ pc = "schema_version"
    /\ \E current_version \in select_version(unwrap(db_tx), Params[leaf]) :
        for_scripts_to_exec(leaf, exec_from(current_version))
    /\ UNCHANGED << db, db_tx, persister, call, changeset, observed, persisted >>
    /\ UNCHANGED column

\* Faulty variant of set_schema_version: records the number of versions applied
\* (version + 1) instead of the version.
set_schema_version_count ==
    /\ pc = "set_schema_version"
    /\ db_tx' = Some(replace_into(unwrap(db_tx), Params[leaf], version + 1))
    /\ for_statement(leaf, version, 1)
    /\ UNCHANGED << db, persister, call, changeset, observed, persisted >>
    /\ UNCHANGED column

\* Faulty variant of set_schema_version: the version write bypasses the transaction
\* and is durable at once.
set_schema_version_autocommit ==
    /\ pc = "set_schema_version"
    /\ db_tx' = Some(replace_into(unwrap(db_tx), Params[leaf], version))
    /\ db' = create_schemas_table(replace_into(db, Params[leaf], version))
    /\ for_statement(leaf, version, 1)
    /\ UNCHANGED << persister, call, changeset, observed, persisted >>
    /\ UNCHANGED column

\* Faulty variant of set_schema_version: records the last completed version
\* (version - 1), as if the bump came after the batch.
set_schema_version_late ==
    /\ pc = "set_schema_version"
    /\ db_tx' = IF version = 0 THEN db_tx
                ELSE Some(replace_into(unwrap(db_tx), Params[leaf], version - 1))
    /\ for_statement(leaf, version, 1)
    /\ UNCHANGED << db, persister, call, changeset, observed, persisted >>
    /\ UNCHANGED column

\* migrate_schema: set_schema_version(db_tx, schema_name, version as u32)?
set_schema_version ==
    /\ pc = "set_schema_version"
    /\ db_tx' = Some(replace_into(unwrap(db_tx), Params[leaf], version))
    /\ for_statement(leaf, version, 1)
    /\ UNCHANGED << db, persister, call, changeset, observed, persisted >>
    /\ UNCHANGED column

\* migrate_schema: db_tx.execute(statement, ())?
execute ==
    /\ pc = "execute"
    /\ LET stmt == scripts_of(leaf)[version + 1][statement]
       IN  /\ db_tx' = Some(execute_statement(unwrap(db_tx), Params[leaf], stmt))
           /\ executed' = [executed EXCEPT ![Params[leaf]] = Append(@, stmt)]
    /\ for_statement(leaf, version, statement + 1)
    /\ UNCHANGED << db, persister, call, changeset, result, loaded, pre, failed,
                    prev, persisted >>
    /\ UNCHANGED column

\* (A, B)::load_changeset: each component's load_changeset in turn, a missing
\* side defaulted to the empty changeset.
load_changeset ==
    /\ pc = "load_changeset"
    /\ changeset' = [changeset EXCEPT ![leaf] =
            unwrap_or_default(leaf_load_changeset(unwrap(db_tx), Params[leaf]), Default)]
    /\ IF leaf = 1
       THEN Goto("load_changeset", 2, 0, 0)
       ELSE Goto("commit", 1, 0, 0)
    /\ UNCHANGED << db, db_tx, persister, call, observed, persisted >>
    /\ UNCHANGED column

\* Faulty variant of load_changeset_result: None as soon as either side is empty.
load_changeset_result_either(c) ==
    IF leaf_is_empty(c[1]) \/ leaf_is_empty(c[2]) THEN None ELSE Some(c)

\* (A, B)::load_changeset returns None for an empty tuple, else Some of it.
load_changeset_result(c) == IF is_empty(c) THEN None ELSE Some(c)

\* Faulty variant of write_changeset: the components are passed the wrong way round.
write_changeset_swapped ==
    /\ pc = "write_changeset"
    /\ db_tx' = Some(leaf_write_changeset(unwrap(db_tx), Params[leaf],
                                          call.changeset[3 - leaf]))
    /\ IF leaf = 1
       THEN Goto("write_changeset", 2, 0, 0)
       ELSE Goto("commit", 1, 0, 0)
    /\ UNCHANGED << db, persister, call, changeset, observed, persisted >>
    /\ UNCHANGED column

\* Faulty variant of write_changeset: each component's write is committed by itself.
write_changeset_autocommit ==
    /\ pc = "write_changeset"
    /\ db_tx' = Some(leaf_write_changeset(unwrap(db_tx), Params[leaf],
                                          call.changeset[leaf]))
    /\ db' = leaf_write_changeset(unwrap(db_tx), Params[leaf], call.changeset[leaf])
    /\ IF leaf = 1
       THEN Goto("write_changeset", 2, 0, 0)
       ELSE Goto("commit", 1, 0, 0)
    /\ UNCHANGED << persister, call, changeset, observed, persisted >>
    /\ UNCHANGED column

\* Faulty variant of write_changeset: self.1 is not called for an empty component.
write_changeset_skips_empty ==
    /\ pc = "write_changeset"
    /\ db_tx' = Some(leaf_write_changeset(unwrap(db_tx), Params[leaf],
                                          call.changeset[leaf]))
    /\ IF leaf = 1 /\ ~leaf_is_empty(call.changeset[2])
       THEN Goto("write_changeset", 2, 0, 0)
       ELSE Goto("commit", 1, 0, 0)
    /\ UNCHANGED << db, persister, call, changeset, observed, persisted >>
    /\ UNCHANGED column

\* (A, B)::write_changeset: component 0 to self.0, then component 1 to self.1.
write_changeset ==
    /\ pc = "write_changeset"
    /\ db_tx' = Some(leaf_write_changeset(unwrap(db_tx), Params[leaf],
                                          call.changeset[leaf]))
    /\ IF leaf = 1
       THEN Goto("write_changeset", 2, 0, 0)
       ELSE Goto("commit", 1, 0, 0)
    /\ UNCHANGED << db, persister, call, changeset, observed, persisted >>
    /\ UNCHANGED column

\* db_tx.commit()? and the Ok the operation then returns: into_persister
\* hands out the Persister and the loaded changeset.
commit ==
    /\ pc = "commit"
    /\ db' = unwrap(db_tx)
    /\ db_tx' = None
    /\ IF call.op = "into_persister"
       THEN /\ persister' = TRUE
            /\ loaded' = load_changeset_result(changeset)
            /\ UNCHANGED persisted
       ELSE /\ persisted' = merge(persisted, call.changeset)
            /\ UNCHANGED << persister, loaded >>
    /\ Return("Ok")
    /\ UNCHANGED << call, pre, executed, failed, prev >>
    /\ UNCHANGED column

\* Faulty variant of rollback: the dropped transaction commits what it has done.
rollback_commits(committed, tx) == IF tx = None THEN committed ELSE unwrap(tx)

\* What is left of the open transaction when it is dropped uncommitted
\* (DropBehavior::Rollback): nothing reaches the committed store.
rollback(committed, tx) == committed

\* Faulty variant of StoreError: the transaction is neither committed nor
\* rolled back when the error is returned (DropBehavior::Ignore).
StoreError_leaves_tx ==
    /\ pc \in { "transaction", "init_schemas_table", "schema_version",
                "set_schema_version", "execute", "load_changeset",
                "write_changeset", "commit" }
    /\ failed' = Some([at |-> pc, name |-> Params[leaf], version |-> version])
    /\ Return("Err")
    /\ UNCHANGED << db, db_tx, persister, call, loaded, pre, executed, prev,
                    persisted >>
    /\ UNCHANGED column

\* Faulty variant of StoreError: the error of a script statement is ignored
\* and the loop goes on with the next statement.
StoreError_swallowed ==
    \/ /\ pc = "execute"
       /\ failed' = Some([at |-> pc, name |-> Params[leaf], version |-> version])
       /\ for_statement(leaf, version, statement + 1)
       /\ UNCHANGED << column, db, db_tx, persister, call, changeset, result, loaded,
                       pre, executed, prev, persisted >>
    \/ /\ pc \in { "transaction", "init_schemas_table", "schema_version",
                   "set_schema_version", "load_changeset", "write_changeset",
                   "commit" }
       /\ db' = rollback(db, db_tx)
       /\ db_tx' = None
       /\ failed' = Some([at |-> pc, name |-> Params[leaf], version |-> version])
       /\ Return("Err")
       /\ UNCHANGED << column, persister, call, loaded, pre, executed, prev, persisted >>

\* Any store call fails: `?` returns the error at once and drops db_tx.
StoreError ==
    /\ pc \in { "transaction", "init_schemas_table", "schema_version",
                "set_schema_version", "execute", "load_changeset",
                "write_changeset", "commit" }
    /\ db' = rollback(db, db_tx)
    /\ db_tx' = None
    /\ failed' = Some([at |-> pc, name |-> Params[leaf], version |-> version])
    /\ Return("Err")
    /\ UNCHANGED << persister, call, loaded, pre, executed, prev, persisted >>
    /\ UNCHANGED column

\* The process dies inside an operation: the store recovers to its last
\* commit and the Persister is gone with the process.
Crash ==
    /\ pc # "idle"
    /\ db_tx' = None
    /\ persister' = FALSE
    /\ failed' = Some([at |-> pc, name |-> Params[leaf], version |-> version])
    /\ Return("Crash")
    /\ UNCHANGED << db, call, loaded, pre, executed, prev, persisted >>
    /\ UNCHANGED column

Next ==
    \/ into_persister
    \/ persist
    \/ transaction
    \/ init_schemas_table
    \/ schema_version
    \/ set_schema_version
    \/ execute
    \/ load_changeset
    \/ write_changeset
    \/ commit
    \/ StoreError
    \/ Crash

Spec == Init /\ [][Next]_vars
\* ------------------------------------------------------------ properties
\* Helpers of the properties below.
Done(op, res) == pc = "idle" /\ call.op = op /\ result = res
Running(op) == call.op = op /\ result = "none"
Aborted(op) == pc = "idle" /\ call.op = op /\ result \in {"Err", "Crash"}

\* migrate_schema of component l has returned Ok inside the running bootstrap.
MigrateReturned(l) ==
    /\ Running("into_persister")
    /\ \/ pc \in {"load_changeset", "commit"}
       \/ l < leaf /\ pc \in {"init_schemas_table", "schema_version",
                              "set_schema_version", "execute"}

\* The first version a store has not recorded for a schema.
FirstPending(store, name) ==
    IF registry(store, name) = None THEN 0 ELSE unwrap(registry(store, name)) + 1

\* The statements of batches from..n-1 of a schema, in order.
RECURSIVE BatchesFrom(_, _, _)
BatchesFrom(name, from, n) ==
    IF from >= n THEN <<>>
    ELSE script(name, from) \o BatchesFrom(name, from + 1, n)

\* The rows of one schema in the registry of a store.
RowsOf(store, name) == {r \in store.bdk_schemas : r.name = name}

\* The store a bootstrap of release `scripts` must leave, started on `store`.
MigratedStore(store, scripts) ==
    LET pending == {m \in SchemaNames : scripts[m] > FirstPending(store, m)}
    IN  [ schemas_table |-> TRUE,
          bdk_schemas |->
              {r \in store.bdk_schemas : r.name \notin pending}
              \cup {[name |-> m, version |-> scripts[m] - 1] : m \in pending},
          applied |-> [m \in SchemaNames |->
              store.applied[m] \o BatchesFrom(m, FirstPending(store, m), scripts[m])],
          rows |-> store.rows ]

\* The store a persist of changeset c must leave, started on `store`.
PersistedStore(store, c) ==
    [store EXCEPT !.rows = [m \in SchemaNames |->
        IF m = Params[1] THEN store.rows[m] \cup c[1] ELSE store.rows[m] \cup c[2]]]

\* C1: a migrate_schema call that returns Ok on a schema that is fresh or at
\* version v, with n > v+1 batches (n >= 1 when fresh), has executed exactly
\* the statements of batches v+1..n-1 (0..n-1 when fresh), once each and in
\* order, and the registry version of the schema is n-1 -- in the transaction
\* when migrate_schema returns and in the committed store when the bootstrap
\* returns Ok.
C1_MigrateRunsPendingBatches ==
    \A l \in 1..2 :
        LET name == Params[l]
            n == call.scripts[name]
            from == FirstPending(pre, name)
        IN  n > from =>
              /\ MigrateReturned(l) =>
                    /\ executed[name] = BatchesFrom(name, from, n)
                    /\ RowsOf(unwrap(db_tx), name) = {[name |-> name, version |-> n - 1]}
              /\ Done("into_persister", "Ok") =>
                    /\ executed[name] = BatchesFrom(name, from, n)
                    /\ RowsOf(db, name) = {[name |-> name, version |-> n - 1]}

\* C1 witness: a store migrated with [S0,S1,S2] was bootstrapped with
\* [S0,S1,S2,S3]; only S3 ran and the version is 3.
C1_Witness ==
    /\ Done("into_persister", "Ok")
    /\ registry(pre, Params[1]) = Some(2)
    /\ pre.applied[Params[1]] = BatchesFrom(Params[1], 0, 3)
    /\ call.scripts[Params[1]] = 4
    /\ executed[Params[1]] = script(Params[1], 3)
    /\ registry(db, Params[1]) = Some(3)

\* C2: a bootstrap that follows a successful bootstrap with the same script
\* lists executes no script statement, and when it returns Ok the registry
\* is what it was before it.
C2_MigrateIdempotent ==
    (call.op = "into_persister" /\ prev.rel = "after_ok") =>
        /\ executed = NoneExecuted
        /\ Done("into_persister", "Ok") => db.bdk_schemas = pre.bdk_schemas

\* C2 witness: the second of two successful bootstraps with the same non-empty
\* script lists has returned.
C2_Witness ==
    /\ Done("into_persister", "Ok")
    /\ prev.rel = "after_ok"
    /\ call.scripts[Params[1]] >= 2
    /\ call.scripts[Params[2]] >= 1
    /\ registry(db, Params[1]) = Some(call.scripts[Params[1]] - 1)

\* C3: no call executes a statement of a batch whose version the committed
\* registry already recorded when the call started.
C3_AppliedVersionNeverRerun ==
    \A name \in SchemaNames :
        \A i \in 1..Len(executed[name]) :
            executed[name][i][2] >= FirstPending(pre, name)

\* C3 witness: a later call on a migrated schema has executed new batches.
C3_Witness ==
    /\ Done("into_persister", "Ok")
    /\ registry(pre, Params[1]) = Some(1)
    /\ Len(executed[Params[1]]) >= 2

\* C4: a bootstrap commits all of its work or none: while it runs and after
\* it failed, the committed store is the one it started on (registry rows
\* included); after Ok it is that store with every pending batch applied.
C4_BootstrapAllOrNothing ==
    call.op = "into_persister" =>
        IF result = "Ok"
        THEN db = MigratedStore(pre, call.scripts)
        ELSE db = pre

\* C4 witness: a bootstrap failed inside a batch after it had bumped versions
\* and executed statements of both schemas' scripts.
C4_Witness ==
    /\ Aborted("into_persister")
    /\ failed # None
    /\ unwrap(failed).at \in {"execute", "load_changeset", "commit"}
    /\ Len(executed[Params[1]]) >= 2
    /\ db = pre

\* C5: persist of a non-empty changeset commits every write of
\* write_changeset and returns Ok, or leaves the committed store unchanged.
C5_PersistAllOrNothing ==
    (call.op = "persist" /\ ~is_empty(call.changeset)) =>
        IF result = "Ok"
        THEN db = PersistedStore(pre, call.changeset)
        ELSE db = pre

\* C5 witness: A's write_changeset succeeded with new facts, then B's write
\* or the commit failed, and the committed store shows none of A's facts.
C5_Witness ==
    /\ Aborted("persist")
    /\ failed # None
    /\ \/ unwrap(failed).at = "commit"
       \/ unwrap(failed).at = "write_changeset" /\ unwrap(failed).name = Params[2]
    /\ ~(call.changeset[1] \subseteq pre.rows[Params[1]])
    /\ db = pre

\* C6: persist of an empty changeset returns Ok at once: no transaction is
\* opened, write_changeset is not reached and the store is unchanged.
C6_PersistEmptyIsNoOp ==
    (call.op = "persist" /\ is_empty(call.changeset)) =>
        /\ pc = "idle"
        /\ result = "Ok"
        /\ db_tx = None
        /\ db = pre

\* C6 witness: an empty changeset was persisted on a store that holds facts.
C6_Witness ==
    /\ Done("persist", "Ok")
    /\ is_empty(call.changeset)
    /\ db.rows[Params[1]] # {}

\* C7: a bootstrap that returns Ok returns the merge of all changesets
\* persisted with Ok so far, and None exactly when that merge is empty (so
\* None on an empty store).
C7_BootstrapReturnsPersisted ==
    Done("into_persister", "Ok") =>
        /\ loaded = IF is_empty(persisted) THEN None ELSE Some(persisted)
        /\ pre = EmptyStore => loaded = None

\* C7 witness: a bootstrap returned a changeset with facts of both components.
C7_Witness ==
    /\ Done("into_persister", "Ok")
    /\ loaded # None
    /\ ~leaf_is_empty(unwrap(loaded)[1])
    /\ ~leaf_is_empty(unwrap(loaded)[2])

\* C8: load_changeset of the pair returns None iff both components loaded
\* nothing (None or empty); otherwise Some of the pair, a component that
\* loaded nothing being the empty changeset.
C8_PairLoadChangeset ==
    Done("into_persister", "Ok") =>
        LET a == unwrap_or_default(leaf_load_changeset(db, Params[1]), Default)
            b == unwrap_or_default(leaf_load_changeset(db, Params[2]), Default)
        IN  /\ loaded = None <=> (leaf_is_empty(a) /\ leaf_is_empty(b))
            /\ loaded # None => loaded = Some(<<a, b>>)

\* C8 witness: one component loaded nothing and the other loaded facts.
C8_Witness ==
    /\ Done("into_persister", "Ok")
    /\ loaded # None
    /\ leaf_is_empty(unwrap(loaded)[1])
    /\ ~leaf_is_empty(unwrap(loaded)[2])

\* C9: when a bootstrap failed or crashed inside batch N of a schema, the
\* next bootstrap with the same script lists finds N not recorded as applied
\* and, once its migrate_schema of that schema returns Ok, has executed every
\* statement of batch N.
C9_FailedBatchIsRerun ==
    (call.op = "into_persister" /\ prev.rel = "after_failed_batch") =>
        LET name == prev.name
            l == IF name = Params[1] THEN 1 ELSE 2
            from == FirstPending(pre, name)
        IN  /\ from <= prev.version
            /\ (MigrateReturned(l) \/ Done("into_persister", "Ok")) =>
                  \E k \in 0..Len(executed[name]) :
                      SubSeq(executed[name], k + 1, k + Len(script(name, prev.version)))
                          = script(name, prev.version)

\* C9 witness: a bootstrap failed inside batch 1 of the first schema after
\* batch 0, and the retry has migrated that schema.
C9_Witness ==
    /\ Done("into_persister", "Ok")
    /\ prev.rel = "after_failed_batch"
    /\ prev.name = Params[1]
    /\ prev.version = 1
    /\ executed[Params[1]] # <<>>

\* C10: migrate_schema of a schema whose stored version is at least
\* len(versioned_scripts) - 1, or whose script list is empty, never reaches
\* set_schema_version or a statement: it executes nothing, leaves the
\* registry rows of the schema as they were (none for a fresh schema with an
\* empty list) and has ensured the registry table when it returns.
C10_NothingPendingRunsNothing ==
    \A l \in 1..2 :
        LET name == Params[l]
            n == call.scripts[name]
        IN  (call.op = "into_persister" /\ (n = 0 \/ FirstPending(pre, name) >= n)) =>
              /\ executed[name] = <<>>
              /\ ~(leaf = l /\ pc \in {"set_schema_version", "execute"})
              /\ db_tx # None =>
                    /\ RowsOf(unwrap(db_tx), name) = RowsOf(pre, name)
                    /\ unwrap(db_tx).applied[name] = pre.applied[name]
              /\ MigrateReturned(l) => unwrap(db_tx).schemas_table
              /\ Done("into_persister", "Ok") =>
                    /\ RowsOf(db, name) = RowsOf(pre, name)
                    /\ db.schemas_table

\* C10 witness: a bootstrap returned Ok whose first script list is shorter
\* than the recorded version and whose second, fresh schema has an empty list.
C10_Witness ==
    /\ Done("into_persister", "Ok")
    /\ registry(pre, Params[1]) = Some(2)
    /\ call.scripts[Params[1]] = 1
    /\ call.scripts[Params[2]] = 0
    /\ registry(db, Params[2]) = None
    /\ registry(db, Params[1]) = Some(2)

\* C11: a failing store call ends the operation at once with the error: the
\* operation is back at the caller with no transaction open, it never ends
\* Ok after a failure, into_persister hands out neither a Persister nor a
\* changeset, and no statement after the failing step was executed (none of
\* a later version, not the rest of the failing batch, none of the second
\* component when the first failed).
C11_NoErrorSwallowed ==
    /\ failed # None =>
          /\ pc = "idle"
          /\ result \in {"Err", "Crash"}
          /\ db_tx = None
    /\ result = "Ok" => failed = None
    /\ result = "Err" =>
          /\ failed # None
          /\ loaded = None
          /\ call.op = "into_persister" => ~persister
          /\ call.op = "persist" => executed = NoneExecuted
          /\ LET f == unwrap(failed)
             IN  /\ f.at = "transaction" => executed = NoneExecuted
                 /\ f.at \in {"init_schemas_table", "schema_version",
                              "set_schema_version", "execute"} =>
                       /\ \A i \in 1..Len(executed[f.name]) :
                             \/ executed[f.name][i][2] < f.version
                             \/ /\ f.at = "execute"
                                /\ executed[f.name][i][2] = f.version
                       /\ f.at = "execute" =>
                             Cardinality({i \in 1..Len(executed[f.name]) :
                                             executed[f.name][i][2] = f.version})
                                 < Len(script(f.name, f.version))
                       /\ f.name = Params[1] => executed[Params[2]] = <<>>

\* C11 witness: the second statement of batch 1 of the first schema failed
\* after batch 0 and the first statement of batch 1 had run; the bootstrap
\* returned the error.
C11_Witness ==
    /\ Done("into_persister", "Err")
    /\ unwrap(failed).at = "execute"
    /\ unwrap(failed).name = Params[1]
    /\ unwrap(failed).version = 1
    /\ Len(executed[Params[1]]) = 2
    /\ ~persister

\* C14: inside migrate_schema the version N is written after the last
\* statement of batch N-1 and before the first of batch N: whenever a
\* statement of batch N is about to execute (or fails), the registry in the
\* transaction holds exactly N for the schema, all earlier pending batches
\* have run in full and batch N up to that statement; when version N is
\* about to be written, batches up to N-1 have run in full and the registry
\* in the transaction still holds what it held before N.
C14_VersionBumpedBeforeBatch ==
    LET name == Params[leaf]
        from == FirstPending(pre, name)
    IN  /\ pc = "execute" =>
              /\ RowsOf(unwrap(db_tx), name) = {[name |-> name, version |-> version]}
              /\ statement \in 1..Len(script(name, version))
              /\ executed[name] = BatchesFrom(name, from, version)
                                    \o SubSeq(script(name, version), 1, statement - 1)
        /\ pc = "set_schema_version" =>
              /\ version >= from
              /\ executed[name] = BatchesFrom(name, from, version)
              /\ RowsOf(unwrap(db_tx), name) =
                    IF version = from THEN RowsOf(pre, name)
                    ELSE {[name |-> name, version |-> version - 1]}

\* C14 witness: the second statement of batch 1 of a fresh schema is about to
\* execute: the transaction records version 1, the committed store nothing.
C14_Witness ==
    /\ pc = "execute"
    /\ leaf = 1
    /\ version = 1
    /\ statement = 2
    /\ registry(unwrap(db_tx), Params[1]) = Some(1)
    /\ registry(db, Params[1]) = None

\* The steps of migrate_schema, and a step that ends the operation in failure.
MigratePcs == {"init_schemas_table", "schema_version", "set_schema_version", "execute"}
FailsNow == pc' = "idle" /\ result' \in {"Err", "Crash"}

\* One step of an operation of the pair (A, B), as C15 requires it.
C15_Step ==
    LET a == Params[1]
        b == Params[2]
    IN  \* the first operation inside the transaction is A's
        /\ pc = "transaction" =>
              \/ FailsNow
              \/ leaf' = 1 /\ pc' \in {"init_schemas_table", "write_changeset"}
        \* initialize_tables: while A's runs B's has done nothing; A's is
        \* followed by more of A's, by B's, or by the failure of the call
        /\ (pc \in MigratePcs /\ leaf = 1) =>
              /\ executed[b] = <<>>
              /\ unwrap(db_tx).applied[b] = pre.applied[b]
              /\ RowsOf(unwrap(db_tx), b) = RowsOf(pre, b)
              /\ \/ FailsNow
                 \/ leaf' = 1 /\ pc' \in MigratePcs
                 \/ leaf' = 2 /\ pc' = "init_schemas_table"
        /\ (pc \in MigratePcs /\ leaf = 2) =>
              /\ executed[a] = BatchesFrom(a, FirstPending(pre, a), call.scripts[a])
              /\ \/ FailsNow
                 \/ leaf' = 2 /\ pc' \in MigratePcs
                 \/ leaf' = 1 /\ pc' = "load_changeset"
        \* load_changeset: A's, then B's, then the commit
        /\ (pc = "load_changeset" /\ leaf = 1) =>
              /\ changeset = DefaultPair
              /\ \/ FailsNow
                 \/ /\ pc' = "load_changeset" /\ leaf' = 2
                    /\ changeset' = << unwrap_or_default(
                           leaf_load_changeset(unwrap(db_tx), a), Default), Default >>
        /\ (pc = "load_changeset" /\ leaf = 2) =>
              \/ FailsNow
              \/ /\ pc' = "commit"
                 /\ changeset' = << changeset[1], unwrap_or_default(
                        leaf_load_changeset(unwrap(db_tx), b), Default) >>
        \* write_changeset: component 0 to A, then component 1 to B (empty or
        \* not), then the commit
        /\ (pc = "write_changeset" /\ leaf = 1) =>
              /\ unwrap(db_tx) = pre
              /\ \/ FailsNow
                 \/ /\ pc' = "write_changeset" /\ leaf' = 2
                    /\ unwrap(db_tx') =
                          leaf_write_changeset(pre, a, call.changeset[1])
        /\ (pc = "write_changeset" /\ leaf = 2) =>
              \/ FailsNow
              \/ /\ pc' = "commit"
                 /\ unwrap(db_tx') = leaf_write_changeset(
                        leaf_write_changeset(pre, a, call.changeset[1]),
                        b, call.changeset[2])
        /\ (pc # "commit" /\ pc' = "commit") =>
              leaf = 2 /\ pc \in {"load_changeset", "write_changeset"}

\* C15: in initialize_tables, load_changeset and write_changeset of (A, B),
\* A's operation runs strictly before B's in the same transaction, B's is not
\* run when A's fails, write_changeset gives component 0 to A and component 1
\* to B and calls both even for an empty component.
C15_PairRunsAThenB == [][C15_Step]_vars

\* C15 witness: A's write_changeset has written its facts and B's is about to
\* be called with an empty component.
C15_Witness ==
    /\ pc = "write_changeset"
    /\ leaf = 2
    /\ leaf_is_empty(call.changeset[2])
    /\ unwrap(db_tx).rows[Params[1]] # pre.rows[Params[1]]

\* C16: schemas are versioned independently.  The registry (committed and in
\* the transaction) has at most one row per schema name; while migrate_schema
\* of one schema runs, the row of the other schema is what it was when that
\* migrate_schema was entered; and the batches a migrate_schema executes are
\* those pending by the schema's own version, whatever the other's is.
C16_SchemasIndependent ==
    LET a == Params[1]
        b == Params[2]
    IN  /\ \A name \in SchemaNames :
              /\ Cardinality(RowsOf(db, name)) <= 1
              /\ db_tx # None => Cardinality(RowsOf(unwrap(db_tx), name)) <= 1
        /\ (pc \in MigratePcs /\ leaf = 1) =>
              RowsOf(unwrap(db_tx), b) = RowsOf(pre, b)
        /\ (pc \in MigratePcs /\ leaf = 2) =>
              RowsOf(unwrap(db_tx), a) = RowsOf(MigratedStore(pre, call.scripts), a)
        /\ \A l \in 1..2 :
              (MigrateReturned(l) \/ Done("into_persister", "Ok")) =>
                  executed[Params[l]] =
                      BatchesFrom(Params[l], FirstPending(pre, Params[l]),
                                  call.scripts[Params[l]])

\* C16 witness: the first schema was migrated from fresh to version 1 in a
\* store whose second schema stayed at version 0.
C16_Witness ==
    /\ Done("into_persister", "Ok")
    /\ registry(pre, Params[1]) = None
    /\ registry(pre, Params[2]) = Some(0)
    /\ registry(db, Params[1]) = Some(1)
    /\ registry(db, Params[2]) = Some(0)

\* One step, as C17 requires it.
C17_Step ==
    \* no transaction is in flight between operations or before it is opened
    /\ pc \in {"idle", "transaction"} => db_tx = None
    /\ pc \notin {"idle", "transaction"} => db_tx # None
    \* a call opens its transaction once, as its first store call
    /\ pc' = "transaction" => pc = "idle"
    /\ (db_tx = None /\ db_tx' # None) => (pc = "transaction" /\ db_tx' = Some(db))
    \* the transaction ends with the call: committed with Ok, else rolled back
    /\ (db_tx # None /\ db_tx' = None) =>
          /\ pc' = "idle"
          /\ \/ result' = "Ok" /\ db' = unwrap(db_tx)
             \/ result' \in {"Err", "Crash"} /\ db' = db
    /\ (pc # "idle" /\ pc' = "idle") => db_tx' = None

\* C17: a bootstrap, and a persist of a non-empty changeset, opens exactly one
\* transaction, and when the call returns that transaction is committed (Ok)
\* or rolled back (error at any step): no transaction is in flight between
\* operations, and a persist after a failed persist opens its own.
C17_OneTransactionPerCall == [][C17_Step]_vars

\* C17 witness: a persist that followed a failed persist returned Ok with its
\* facts committed.
C17_Witness ==
    /\ Done("persist", "Ok")
    /\ prev.rel = "after_failed_persist"
    /\ ~is_empty(call.changeset)
    /\ db # pre
    /\ db_tx = None

\* C18: in every committed store, a schema whose registry row holds v has
\* exactly the statements of batches 0..v applied, each once and in order,
\* and none of a later batch; a schema without a row has none applied.
C18_CommittedMatchesVersion ==
    \A name \in SchemaNames :
        db.applied[name] = BatchesFrom(name, 0, FirstPending(db, name))

\* C18 witness: a bootstrap that had executed statements beyond version 1
\* failed; the committed store still holds version 1 and batches 0..1.
C18_Witness ==
    /\ Aborted("into_persister")
    /\ registry(db, Params[1]) = Some(1)
    /\ Len(executed[Params[1]]) >= 2
    /\ db.applied[Params[1]] = BatchesFrom(Params[1], 0, 2)

Max(x, y) == IF x >= y THEN x ELSE y

\* C19: the registry version of a schema never decreases and its row is never
\* removed, in the committed store and inside a transaction, whatever the
\* lengths of the script lists; a migrate_schema with n >= 1 batches that
\* returns Ok leaves version max(v, n-1) (n-1 on a fresh schema), and changes
\* nothing of the schema when n-1 <= v.
C19_VersionNeverDecreases ==
    \A l \in 1..2 :
        LET name == Params[l]
            n == call.scripts[name]
            before == FirstPending(pre, name)
        IN  /\ FirstPending(db, name) >= before
            /\ db_tx # None => FirstPending(unwrap(db_tx), name) >= before
            /\ (call.op = "into_persister" /\ n >= 1) =>
                  /\ MigrateReturned(l) =>
                        FirstPending(unwrap(db_tx), name) = Max(before, n)
                  /\ Done("into_persister", "Ok") =>
                        /\ FirstPending(db, name) = Max(before, n)
                        /\ n <= before =>
                              /\ RowsOf(db, name) = RowsOf(pre, name)
                              /\ db.applied[name] = pre.applied[name]

\* C19 witness: a bootstrap returned Ok with a list of 2 batches for a schema
\* at version 3, which stayed at 3, and a list of 1 batch for a fresh schema.
C19_Witness ==
    /\ Done("into_persister", "Ok")
    /\ call.scripts[Params[1]] = 2
    /\ registry(pre, Params[1]) = Some(3)
    /\ registry(db, Params[1]) = Some(3)
    /\ registry(pre, Params[2]) = None
    /\ registry(db, Params[2]) = Some(0)

\* ------------------------------------------------- a caller that retries
\* The script lists of a release that ships at least one batch per schema.
RetryLists == {n \in Releases : \A m \in SchemaNames : n[m] >= 1}

\* The caller bootstraps with one such list, and with the same list again
\* each time: nothing in into_persister or migrate_schema loops back.
retry_bootstrap ==
    /\ into_persister
    /\ call'.scripts \in RetryLists
    /\ call.op # "none" => call'.scripts = call.scripts

\* One store call of the running bootstrap returns Ok.
BootstrapStep ==
    \/ transaction
    \/ init_schemas_table
    \/ schema_version
    \/ set_schema_version
    \/ execute
    \/ load_changeset
    \/ commit

RetryNext ==
    \/ retry_bootstrap
    \/ transaction
    \/ init_schemas_table
    \/ schema_version
    \/ set_schema_version
    \/ execute
    \/ load_changeset
    \/ commit
    \/ StoreError
    \/ Crash

\* A running bootstrap makes its next store call, which returns or fails, and
\* the caller bootstraps again as long as the last attempt did not return Ok.
RetrySpec ==
    /\ Init
    /\ [][RetryNext]_vars
    /\ WF_vars(BootstrapStep)
    /\ WF_vars(retry_bootstrap /\ result # "Ok")

\* From some point on no store call fails and the process does not die.
FailuresStop == <>[][~(StoreError \/ Crash)]_vars

\* Every schema of the caller's list is recorded at its last version.
Settled(store) ==
    /\ call.op = "into_persister"
    /\ \A m \in SchemaNames : registry(store, m) = Some(call.scripts[m] - 1)

\* C20: with a caller that bootstraps again with the same list of n >= 1
\* batches after every failed attempt, (a) a running call always returns,
\* (b) a call never executes more than the n batches of its list, and (c) if
\* store failures eventually stop, a bootstrap eventually commits with the
\* registry at version n-1, the registry stays there, and bootstraps that
\* start from there execute no statement.
C20_RetryEventuallyCommits ==
    /\ (pc # "idle") ~> (pc = "idle")
    /\ [](\A m \in SchemaNames :
            /\ Len(executed[m]) <= Len(BatchesFrom(m, 0, call.scripts[m]))
            /\ pc \in {"set_schema_version", "execute"} =>
                  version < call.scripts[Params[leaf]])
    /\ FailuresStop =>
          /\ <>(Done("into_persister", "Ok") /\ Settled(db))
          /\ <>[](/\ Settled(db)
                  /\ Settled(pre) => executed = NoneExecuted)

\* C20 witness: a bootstrap that failed inside a batch was run again with
\* the same list, executed its batches and committed at the last version.
C20_Witness ==
    /\ Done("into_persister", "Ok")
    /\ prev.rel = "after_failed_batch"
    /\ call.scripts[Params[1]] = MaxScripts
    /\ Settled(db)
    /\ executed[Params[1]] = BatchesFrom(Params[1], 0, MaxScripts)

\* ------------------------------------------------ a column through the codec
\* A value of a supported type is bound to a statement parameter: to_sql.
write_column ==
    /\ column.phase = "none"
    /\ \E T \in Types : \E self \in Values(T) :
        column' = [ phase |-> "written", T |-> T, self |-> self,
                    stored |-> to_sql(T, self), altered |-> FALSE,
                    decoded |-> Err("") ]
    /\ UNCHANGED store_vars

\* The store does not hold the column as it was written.
alter_column ==
    /\ column.phase = "written"
    /\ column.stored.ok
    /\ ~column.altered
    /\ \E value \in Alterations(column.stored.v) :
        column' = [column EXCEPT !.stored = Ok(value), !.altered = TRUE]
    /\ UNCHANGED store_vars

\* The column of a row is read back as the type: column_result.
read_column ==
    /\ column.phase = "written"
    /\ column.stored.ok
    /\ column' = [column EXCEPT !.phase = "read",
                                !.decoded = column_result(column.T, column.stored.v)]
    /\ UNCHANGED store_vars

CodecNext ==
    \/ write_column
    \/ alter_column
    \/ read_column

CodecSpec == Init /\ [][CodecNext]_vars

\* Helpers of the codec properties: the storage classes a type reads, and
\* the contents that are not the text or bytes of any value of the type.
StringTypes == HashTypes \cup {"Anchor", "Descriptor", "Network"}
WrongClass(T, value) ==
    CASE T \in StringTypes -> value.class # "Text"
      [] T \in {"Transaction", "ScriptBuf"} -> value.class \notin {"Text", "Blob"}
      [] T = "Amount" -> value.class # "Integer"
HexChars ==
    { 48, 49, 50, 51, 52, 53, 54, 55, 56, 57,
      65, 66, 67, 68, 69, 70, 97, 98, 99, 100, 101, 102 }
MaxParsed == 10 ^ (Len(Decimal(MaxHeight)) + 1) - 1
Malformed(T, value) ==
    LET c == value.bytes
    IN
    CASE T \in HashTypes -> Len(c) # 2 * HashLen \/ \E i \in 1..Len(c) : c[i] \notin HexChars
      [] T = "Transaction" -> Len(c) < 2 \/ Len(c) - 2 < c[2]
      [] T = "ScriptBuf" -> FALSE
      [] T = "Amount" -> value.int < 0 \/ value.int > U64_MAX
      [] T = "Anchor" ->
            \A h \in 0..MaxParsed : SkipSpaces(c) # JsonKey \o Decimal(h) \o <<125>>
      [] T = "Descriptor" ->
            \A d \in Descriptors :
                c # Expression(d) /\ c # Expression(d) \o <<35>> \o desc_checksum(Expression(d))
      [] T = "Network" -> \A network \in Networks : c # network_to_string(network)

C13_AmountRange ==
    column.T = "Amount" =>
        /\ column.phase = "written" /\ ~column.altered =>
              IF column.self > I64_MAX
              THEN column.stored = Err("ToSqlConversionFailure")
              ELSE column.stored = Ok(SqlInteger(column.self))
        /\ column.phase = "read" /\ column.stored.v.class = "Integer" =>
              LET i == column.stored.v.int
              IN  /\ i \in I64_MIN..I64_MAX
                  /\ IF i < 0 \/ i > U64_MAX
                     THEN ~column.decoded.ok
                     ELSE column.decoded = Ok(i)

\* C13 witness: a negative integer in an Amount column was read as an error.
C13_Witness ==
    /\ column.phase = "read"
    /\ column.T = "Amount"
    /\ column.stored.v.class = "Integer"
    /\ column.stored.v.int < 0
    /\ column.decoded = Err("Other")
====
